---- MODULE Spec2Model ----
(***************************************************************************)
(* The KEM key-management layer of the katzenpost wire package (kem.go):   *)
(* the scheme factory, the publicKey and privateKey wrappers, their PEM    *)
(* file codec and the scrubbed-key guard, as a state machine over one      *)
(* PublicKey object, one PrivateKey object and a small file system.        *)
(*                                                                         *)
(* Strings are sequences of one-character strings, so that strings.ToUpper *)
(* is computed character by character.  Byte strings are sequences of      *)
(* numbers in 0..MaxByte.                                                  *)
(***************************************************************************)
EXTENDS Integers, Sequences, FiniteSets

\* ---------------------------------------------------------------- bounds

\* Byte values range over 0..MaxByte.
MaxByte == 1

\* ------------------------------------------------- the external KEM primitive

\* Serialized key sizes of the KEM, scaled down (the real Kyber768-X25519
\* sizes are in the hundreds of bytes).  The private size is one more than
\* the public size, so no byte string is valid for both classes.
PubKeySize == 1

PrivKeySize == PubKeySize + 1

Byte == 0..MaxByte

RECURSIVE SeqsOfLen(_)
SeqsOfLen(n) ==
    IF n = 0 THEN {<<>>}
    ELSE {Append(s, b) : s \in SeqsOfLen(n - 1), b \in Byte}

PubKeys == SeqsOfLen(PubKeySize)

PrivKeys == SeqsOfLen(PrivKeySize)

Zeros(n) == [i \in 1..n |-> 0]

Ones(n) == [i \in 1..n |-> 1]

Max(a, b) == IF a >= b THEN a ELSE b

\* The KEM identity held by DefaultScheme, and the name kem.KEM.String() gives.
Kyber768X25519 == "Kyber768X25519"

KEM_String(k) ==
    IF k = Kyber768X25519
    THEN <<"K","y","b","e","r","7","6","8","-","X","2","5","5","1","9">>
    ELSE <<>>

\* The public component embedded in the keypair whose private bytes are sk.
KEM_Derive(sk) == [i \in 1..PubKeySize |-> Max(sk[i], sk[i + 1])]

\* kem.KEM.ParsePublicKey: validates the length only.
KEM_ParsePublicKey(k, b) ==
    IF Len(b) = PubKeySize
    THEN [err |-> "nil", key |-> b]
    ELSE [err |-> "ErrParse", key |-> <<>>]

\* kem.KEM.ParsePrivateKey: validates the length, rebuilds the keypair.
KEM_ParsePrivateKey(k, b) ==
    IF Len(b) = PrivKeySize
    THEN [err |-> "nil", key |-> [sk |-> b, pk |-> KEM_Derive(b)]]
    ELSE [err |-> "ErrParse", key |-> [sk |-> <<>>, pk |-> <<>>]]

\* kem.KEM.GenerateKeypair from a seeded stream: the seed fixes the keypair.
KEM_GenerateKeypair(k, seed) == [sk |-> seed, pk |-> KEM_Derive(seed)]

\* kem.Keypair.MarshalBinary and kem.Keypair.Public, kem.PublicKey.Bytes.
Keypair_MarshalBinary(kp) == kp.sk

Keypair_Public(kp) == kp.pk

KemPublicKey_Bytes(k) == k

\* blake2b.Sum256 as a collision-free code of the byte string (never 0, the
\* value of a zeroed [32]byte).
RECURSIVE Blake2bCode(_)
Blake2bCode(b) ==
    IF b = <<>> THEN 1
    ELSE Blake2bCode(SubSeq(b, 1, Len(b) - 1)) * (MaxByte + 2) + b[Len(b)] + 1

blake2b_Sum256(b) == Blake2bCode(b)

\* The zero value of the hash field, [PublicKeyHashSize]byte{}.
ZeroHash == 0

\* utils.CtIsZero: true iff every byte is zero.
CtIsZero(b) == \A i \in 1..Len(b) : b[i] = 0

\* ---------------------------------------------------------------- strings

LowerLetters ==
    <<"a","b","c","d","e","f","g","h","i","j","k","l","m",
      "n","o","p","q","r","s","t","u","v","w","x","y","z">>

UpperLetters ==
    <<"A","B","C","D","E","F","G","H","I","J","K","L","M",
      "N","O","P","Q","R","S","T","U","V","W","X","Y","Z">>

\* unicode.ToUpper on the ASCII letters.
LowerLetterSet == {LowerLetters[i] : i \in 1..Len(LowerLetters)}

ToUpperChar(c) ==
    IF c \notin LowerLetterSet THEN c ELSE
    CASE c = "a" -> "A" [] c = "b" -> "B" [] c = "c" -> "C" [] c = "d" -> "D"
      [] c = "e" -> "E" [] c = "f" -> "F" [] c = "g" -> "G" [] c = "h" -> "H"
      [] c = "i" -> "I" [] c = "j" -> "J" [] c = "k" -> "K" [] c = "l" -> "L"
      [] c = "m" -> "M" [] c = "n" -> "N" [] c = "o" -> "O" [] c = "p" -> "P"
      [] c = "q" -> "Q" [] c = "r" -> "R" [] c = "s" -> "S" [] c = "t" -> "T"
      [] c = "u" -> "U" [] c = "v" -> "V" [] c = "w" -> "W" [] c = "x" -> "X"
      [] c = "y" -> "Y" [] c = "z" -> "Z" [] OTHER -> c

ToLowerChar(c) ==
    IF \E i \in 1..Len(UpperLetters) : UpperLetters[i] = c
    THEN LowerLetters[CHOOSE i \in 1..Len(UpperLetters) : UpperLetters[i] = c]
    ELSE c

\* strings.ToUpper
ToUpper(s) == [i \in 1..Len(s) |-> ToUpperChar(s[i])]

ToLower(s) == [i \in 1..Len(s) |-> ToLowerChar(s[i])]

PublicSuffix == <<" ","P","U","B","L","I","C"," ","K","E","Y">>

PrivateSuffix == <<" ","P","R","I","V","A","T","E"," ","K","E","Y">>

\* fmt.Sprintf("%s PUBLIC KEY", strings.ToUpper(KEM.String()))
PublicKeyType(k) == ToUpper(KEM_String(k)) \o PublicSuffix

\* fmt.Sprintf("%s PRIVATE KEY", strings.ToUpper(KEM.String()))
PrivateKeyType(k) == ToUpper(KEM_String(k)) \o PrivateSuffix

\* -------------------------------------------------------------- PEM text

\* PEM text is a sequence of lines.  A line is a BEGIN or END line carrying a
\* type tag, a line of base64 characters, or any other text.
BeginLine(t) == [k |-> "BEGIN", t |-> t, d |-> <<>>]

EndLine(t) == [k |-> "END", t |-> t, d |-> <<>>]

B64Line(d) == [k |-> "B64", t |-> <<>>, d |-> d]

TextLine == [k |-> "TEXT", t |-> <<>>, d |-> <<>>]

\* The base64 alphabet, one character per byte value (a substitution code).
B64Alphabet == <<"A","B","C","D","E","F","G","H">>

B64Encode(b) == [i \in 1..Len(b) |-> B64Alphabet[b[i] + 1]]

B64Valid(d) ==
    \A i \in 1..Len(d) : \E v \in 1..Len(B64Alphabet) : B64Alphabet[v] = d[i]

B64Decode(d) ==
    [i \in 1..Len(d) |->
        (CHOOSE v \in 1..Len(B64Alphabet) : B64Alphabet[v] = d[i]) - 1]

\* pem.EncodeToMemory(&pem.Block{Type: t, Bytes: b})
pem_EncodeToMemory(t, b) ==
    <<BeginLine(t)>>
        \o (IF b = <<>> THEN <<>> ELSE <<B64Line(B64Encode(b))>>)
        \o <<EndLine(t)>>

NoBlock == [ok |-> FALSE, Type |-> <<>>, Bytes |-> <<>>, rest |-> <<>>]

\* The body lines that follow the BEGIN line at i: the index of the first
\* line after i that is not a base64 line.
RECURSIVE BodyEnd(_, _)
BodyEnd(data, j) ==
    IF j <= Len(data) /\ data[j].k = "B64" THEN BodyEnd(data, j + 1) ELSE j

RECURSIVE JoinB64(_, _, _)
JoinB64(data, i, j) ==
    IF i >= j THEN <<>> ELSE data[i].d \o JoinB64(data, i + 1, j)

\* pem.Decode: the first well-formed block (BEGIN, base64 body, END with the
\* same type), skipping what precedes it; nil when there is none.
RECURSIVE DecodeFrom(_, _)
DecodeFrom(data, i) ==
    IF i > Len(data) THEN [NoBlock EXCEPT !.rest = data]
    ELSE IF data[i].k # "BEGIN" THEN DecodeFrom(data, i + 1)
    ELSE LET j == BodyEnd(data, i + 1)
             body == JoinB64(data, i + 1, j)
         IN  IF /\ j <= Len(data)
                /\ data[j].k = "END"
                /\ data[j].t = data[i].t
                /\ B64Valid(body)
             THEN [ok |-> TRUE, Type |-> data[i].t, Bytes |-> B64Decode(body),
                   rest |-> SubSeq(data, j + 1, Len(data))]
             ELSE DecodeFrom(data, i + 1)

pem_Decode(data) == DecodeFrom(data, 1)

\* ----------------------------------------------------------- file system

\* "key.pem" is a path in an existing directory; the parent directory of
\* "nodir/key.pem" does not exist, so reading and writing it fail.
Paths == {"key.pem", "nodir/key.pem"}

Reachable(f) == f = "key.pem"

NoFile == [exists |-> FALSE, data |-> <<>>, mode |-> 0]

\* Permission bits 0600: owner read/write only.
Mode0600 == 384

\* 0644: 0600 plus the group and world read bits (040 + 004).
Mode0644 == Mode0600 + 36

\* os.ReadFile
os_ReadFile(files, f) ==
    IF Reachable(f) /\ files[f].exists
    THEN [err |-> "nil", buf |-> files[f].data]
    ELSE [err |-> "ErrRead", buf |-> <<>>]

\* os.WriteFile(f, data, perm): creates the file with perm when it does not
\* exist; otherwise truncates and rewrites it without changing its mode.
os_WriteFile(files, f, data, perm) ==
    IF ~Reachable(f)
    THEN [err |-> "ErrWrite", fs |-> files]
    ELSE [err |-> "nil",
          fs |-> [files EXCEPT ![f] =
                    [exists |-> TRUE, data |-> data,
                     mode |-> IF files[f].exists THEN files[f].mode ELSE perm]]]

\* ------------------------------------------------------------ key objects

\* type publicKey struct { publicKey kem.PublicKey; KEM kem.KEM; hash [32]byte }
NoKey == [KEM |-> "", publicKey |-> <<>>, hash |-> ZeroHash]

\* type privateKey struct { privateKey kem.Keypair; KEM kem.KEM }
NoPriv == [KEM |-> "", privateKey |-> [sk |-> <<>>, pk |-> <<>>]]

\* var DefaultScheme = &scheme{KEM: kem.Kyber768X25519}
DefaultScheme == [KEM |-> Kyber768X25519]

publicKey_KeyType(p) == PublicKeyType(p.KEM)

publicKey_Bytes(p) == KemPublicKey_Bytes(p.publicKey)

publicKey_Equal(p, other) == publicKey_Bytes(other) = publicKey_Bytes(p)

\* Variant: FromBytes assigning the parser's result before looking at its
\* error.
publicKey_FromBytes_NoErrCheck(p, b) ==
    LET r == KEM_ParsePublicKey(p.KEM, b)
    IN  [err |-> r.err, p |-> [p EXCEPT !.publicKey = r.key], parsed |-> TRUE]

publicKey_FromBytes(p, b) ==
    LET r == KEM_ParsePublicKey(p.KEM, b)
    IN  IF r.err # "nil"
        THEN [err |-> r.err, p |-> p, parsed |-> TRUE]
        ELSE [err |-> "nil", p |-> [p EXCEPT !.publicKey = r.key],
              parsed |-> TRUE]

publicKey_UnmarshalBinary(p, data) == publicKey_FromBytes(p, data)

publicKey_FromPEMFile(p, f, files) ==
    LET keyType == PublicKeyType(p.KEM)
        rd == os_ReadFile(files, f)
        blk == pem_Decode(rd.buf)
    IN  IF rd.err # "nil" THEN [err |-> rd.err, p |-> p, parsed |-> FALSE]
        ELSE IF ~blk.ok THEN [err |-> "ErrDecode", p |-> p, parsed |-> FALSE]
        ELSE IF ToUpper(blk.Type) # keyType
             THEN [err |-> "ErrType", p |-> p, parsed |-> FALSE]
        ELSE publicKey_FromBytes(p, blk.Bytes)

publicKey_ToPEMFile(p, f, files) ==
    LET keyType == PublicKeyType(p.KEM)
    IN  IF CtIsZero(publicKey_Bytes(p))
        THEN [err |-> "ErrScrubbed", fs |-> files]
        ELSE os_WriteFile(files, f,
                          pem_EncodeToMemory(keyType, publicKey_Bytes(p)),
                          Mode0600)

\* func (p *publicKey) Reset() { p = nil }: assigns the receiver variable
\* only; the object is what it was.
publicKey_Reset(p) == p

publicKey_MarshalBinary(p) == publicKey_Bytes(p)

\* Variant: Sum256 returning the cached hash once one is there.
publicKey_Sum256_Cached(p) ==
    IF p.hash # ZeroHash THEN [p |-> p, out |-> p.hash]
    ELSE LET h == blake2b_Sum256(publicKey_Bytes(p))
         IN  [p |-> [p EXCEPT !.hash = h], out |-> h]

publicKey_Sum256(p) ==
    LET h == blake2b_Sum256(publicKey_Bytes(p))
    IN  [p |-> [p EXCEPT !.hash = h], out |-> h]

privateKey_KeyType(p) == PrivateKeyType(p.KEM)

privateKey_Bytes(p) == Keypair_MarshalBinary(p.privateKey)


\* Variant: FromBytes replacing the private component only, so the keypair
\* keeps the public component it had.
privateKey_FromBytes_KeepsPublic(p, b) ==
    LET r == KEM_ParsePrivateKey(p.KEM, b)
    IN  IF r.err # "nil"
        THEN [err |-> r.err, p |-> p, parsed |-> TRUE]
        ELSE [err |-> "nil", p |-> [p EXCEPT !.privateKey.sk = r.key.sk],
              parsed |-> TRUE]

\* Variant: FromBytes assigning the parser's result before looking at its
\* error.
privateKey_FromBytes_NoErrCheck(p, b) ==
    LET r == KEM_ParsePrivateKey(p.KEM, b)
    IN  [err |-> r.err, p |-> [p EXCEPT !.privateKey = r.key],
         parsed |-> TRUE]

privateKey_FromBytes(p, b) ==
    LET r == KEM_ParsePrivateKey(p.KEM, b)
    IN  IF r.err # "nil"
        THEN [err |-> r.err, p |-> p, parsed |-> TRUE]
        ELSE [err |-> "nil", p |-> [p EXCEPT !.privateKey = r.key],
              parsed |-> TRUE]

privateKey_UnmarshalBinary(p, data) == privateKey_FromBytes(p, data)

privateKey_FromPEMFile(p, f, files) ==
    LET keyType == PrivateKeyType(p.KEM)
        rd == os_ReadFile(files, f)
        blk == pem_Decode(rd.buf)
    IN  IF rd.err # "nil" THEN [err |-> rd.err, p |-> p, parsed |-> FALSE]
        ELSE IF ~blk.ok THEN [err |-> "ErrDecode", p |-> p, parsed |-> FALSE]
        ELSE IF ToUpper(blk.Type) # keyType
             THEN [err |-> "ErrType", p |-> p, parsed |-> FALSE]
        ELSE privateKey_FromBytes(p, blk.Bytes)


\* Variant: the private key written under the public type tag.
privateKey_ToPEMFile_PublicTag(p, f, files) ==
    LET keyType == PublicKeyType(p.KEM)
    IN  IF CtIsZero(privateKey_Bytes(p))
        THEN [err |-> "ErrScrubbed", fs |-> files]
        ELSE os_WriteFile(files, f,
                          pem_EncodeToMemory(keyType, privateKey_Bytes(p)),
                          Mode0600)

privateKey_ToPEMFile(p, f, files) ==
    LET keyType == PrivateKeyType(p.KEM)
    IN  IF CtIsZero(privateKey_Bytes(p))
        THEN [err |-> "ErrScrubbed", fs |-> files]
        ELSE os_WriteFile(files, f,
                          pem_EncodeToMemory(keyType, privateKey_Bytes(p)),
                          Mode0600)

\* func (p *privateKey) Reset() { p = nil }
privateKey_Reset(p) == p

privateKey_PublicKey(p) ==
    [publicKey |-> Keypair_Public(p.privateKey),
     hash |-> blake2b_Sum256(KemPublicKey_Bytes(Keypair_Public(p.privateKey))),
     KEM |-> p.KEM]

privateKey_MarshalBinary(p) == privateKey_Bytes(p)

\* ------------------------------------------- core/crypto/pem (cpem) helpers

\* cpem.ToFile(f, key): the scrubbed-key guard, then one PEM block with the
\* canonical type tag, written with mode 0600.
cpem_ToFile(f, keyType, bytes, files) ==
    IF CtIsZero(bytes)
    THEN [err |-> "ErrScrubbed", fs |-> files]
    ELSE os_WriteFile(files, f, pem_EncodeToMemory(ToUpper(keyType), bytes),
                      Mode0600)

\* cpem.ToPEMBytes(key): the PEM text of the key; the scrubbed-key guard has
\* no error to return and aborts.
cpem_ToPEMBytes(keyType, bytes) ==
    IF CtIsZero(bytes)
    THEN [panic |-> TRUE, text |-> <<>>]
    ELSE [panic |-> FALSE,
          text |-> pem_EncodeToMemory(ToUpper(keyType), bytes)]

\* cpem.FromPEMBytes(text, key): exactly one PEM block, whose type tag is
\* compared in upper case with the key's; the block's bytes are what
\* key.FromBytes is then given.
cpem_FromPEMBytes(text, keyType) ==
    LET blk == pem_Decode(text)
    IN  IF ~blk.ok THEN [err |-> "ErrDecode", bytes |-> <<>>]
        ELSE IF blk.rest # <<>> THEN [err |-> "ErrDecode", bytes |-> <<>>]
        ELSE IF ToUpper(blk.Type) # ToUpper(keyType)
             THEN [err |-> "ErrType", bytes |-> <<>>]
        ELSE [err |-> "nil", bytes |-> blk.Bytes]

publicKey_MarshalText(p) ==
    cpem_ToPEMBytes(publicKey_KeyType(p), publicKey_Bytes(p))

publicKey_UnmarshalText(p, text) ==
    LET d == cpem_FromPEMBytes(text, publicKey_KeyType(p))
    IN  IF d.err # "nil" THEN [err |-> d.err, p |-> p, parsed |-> FALSE]
        ELSE publicKey_FromBytes(p, d.bytes)

privateKey_MarshalText(p) ==
    cpem_ToPEMBytes(privateKey_KeyType(p), privateKey_Bytes(p))

privateKey_UnmarshalText(p, text) ==
    LET d == cpem_FromPEMBytes(text, privateKey_KeyType(p))
    IN  IF d.err # "nil" THEN [err |-> d.err, p |-> p, parsed |-> FALSE]
        ELSE privateKey_FromBytes(p, d.bytes)

\* ----------------------------------------------------------------- scheme

scheme_PrivateKeyFromBytes(s, b) ==
    LET r == KEM_ParsePrivateKey(s.KEM, b)
    IN  IF r.err # "nil"
        THEN [err |-> r.err, key |-> NoPriv, parsed |-> TRUE]
        ELSE [err |-> "nil", key |-> [privateKey |-> r.key, KEM |-> s.KEM],
              parsed |-> TRUE]


\* Variant: the public constructor calling the private-key parser.
scheme_PublicKeyFromBytes_WrongParser(s, b) ==
    LET r == KEM_ParsePrivateKey(s.KEM, b)
    IN  IF r.err # "nil"
        THEN [err |-> r.err, key |-> NoKey, parsed |-> TRUE]
        ELSE [err |-> "nil",
              key |-> [publicKey |-> r.key.pk, KEM |-> s.KEM,
                       hash |-> ZeroHash],
              parsed |-> TRUE]

scheme_PublicKeyFromBytes(s, b) ==
    LET r == KEM_ParsePublicKey(s.KEM, b)
    IN  IF r.err # "nil"
        THEN [err |-> r.err, key |-> NoKey, parsed |-> TRUE]
        ELSE [err |-> "nil",
              key |-> [publicKey |-> r.key, KEM |-> s.KEM, hash |-> ZeroHash],
              parsed |-> TRUE]


\* Variant: the private loader without the type-tag comparison.
scheme_PrivateKeyFromPemFile_NoTypeCheck(s, f, files) ==
    LET rd == os_ReadFile(files, f)
        blk == pem_Decode(rd.buf)
    IN  IF rd.err # "nil"
        THEN [err |-> rd.err, key |-> NoPriv, parsed |-> FALSE]
        ELSE IF ~blk.ok
             THEN [err |-> "ErrDecode", key |-> NoPriv, parsed |-> FALSE]
        ELSE scheme_PrivateKeyFromBytes(s, blk.Bytes)

scheme_PrivateKeyFromPemFile(s, f, files) ==
    LET keyType == PrivateKeyType(s.KEM)
        rd == os_ReadFile(files, f)
        blk == pem_Decode(rd.buf)
    IN  IF rd.err # "nil"
        THEN [err |-> rd.err, key |-> NoPriv, parsed |-> FALSE]
        ELSE IF ~blk.ok
             THEN [err |-> "ErrDecode", key |-> NoPriv, parsed |-> FALSE]
        ELSE IF ToUpper(blk.Type) # keyType
             THEN [err |-> "ErrType", key |-> NoPriv, parsed |-> FALSE]
        ELSE scheme_PrivateKeyFromBytes(s, blk.Bytes)

scheme_PrivateKeyToPemFile(s, f, privKey, files) ==
    cpem_ToFile(f, privateKey_KeyType(privKey), privateKey_Bytes(privKey),
                files)

scheme_PublicKeyFromPemFile(s, f, files) ==
    LET keyType == PublicKeyType(s.KEM)
        rd == os_ReadFile(files, f)
        blk == pem_Decode(rd.buf)
    IN  IF rd.err # "nil"
        THEN [err |-> rd.err, key |-> NoKey, parsed |-> FALSE]
        ELSE IF ~blk.ok
             THEN [err |-> "ErrDecode", key |-> NoKey, parsed |-> FALSE]
        ELSE IF ToUpper(blk.Type) # keyType
             THEN [err |-> "ErrType", key |-> NoKey, parsed |-> FALSE]
        ELSE scheme_PublicKeyFromBytes(s, blk.Bytes)

scheme_PublicKeyToPemFile(s, f, pubKey, files) ==
    cpem_ToFile(f, publicKey_KeyType(pubKey), publicKey_Bytes(pubKey), files)

\* base64.StdEncoding.DecodeString, then the binary constructor.
scheme_UnmarshalTextPublicKey(s, b) ==
    IF ~B64Valid(b)
    THEN [err |-> "ErrBase64", key |-> NoKey, parsed |-> FALSE]
    ELSE scheme_PublicKeyFromBytes(s, B64Decode(b))

scheme_UnmarshalTextPrivateKey(s, b) ==
    IF ~B64Valid(b)
    THEN [err |-> "ErrBase64", key |-> NoPriv, parsed |-> FALSE]
    ELSE scheme_PrivateKeyFromBytes(s, B64Decode(b))

scheme_UnmarshalBinaryPublicKey(s, b) == scheme_PublicKeyFromBytes(s, b)

\* The entropy reader r is the seed it yields, or <<>> when it yields none:
\* seec.GenKeyPRPAES then fails and GenerateKeypair panics.
scheme_GenerateKeypair(s, r) ==
    IF r = <<>>
    THEN [panic |-> TRUE, priv |-> NoPriv, pub |-> NoKey]
    ELSE LET k == KEM_GenerateKeypair(s.KEM, r)
             privk == [KEM |-> s.KEM, privateKey |-> k]
         IN  [panic |-> FALSE, priv |-> privk,
              pub |-> privateKey_PublicKey(privk)]

\* ------------------------------------------------------------------ state

VARIABLES
    pub,      \* the caller's PublicKey object (NoKey: none yet)
    priv,     \* the caller's PrivateKey object (NoPriv: none yet)
    fs,       \* the file system: path -> file
    ret,      \* the last call: its name, error, output, path and whether
              \* the bytes it was given reached the KEM parser
    paired    \* pub and priv are byte for byte the pair GenerateKeypair
              \* returned

vars == <<pub, priv, fs, ret, paired>>

\* ----------------------------------------------------------------- inputs

\* Byte strings handed to the parsing calls: every well-sized public and
\* private key, and the empty string.
ByteInputs == PubKeys \cup PrivKeys \cup {<<>>}

\* Base64 texts handed to the scheme's text constructors.
Base64Inputs ==
    {B64Encode(Ones(PubKeySize)), B64Encode(Ones(PrivKeySize)), <<"!">>}

\* Entropy readers: a seed of a keypair whose keys are not all zero, or none.
EntropyInputs == {sk \in PrivKeys : ~CtIsZero(sk)} \cup {<<>>}

X25519Name == <<"X","2","5","5","1","9">>

DefaultPublicTag == PublicKeyType(Kyber768X25519)

DefaultPrivateTag == PrivateKeyType(Kyber768X25519)

\* PEM texts handed to UnmarshalText: the canonical public block, a private
\* block tagged in lower case, a public block of another algorithm, a block
\* with bad base64, a private block after leading text, a block whose END
\* line names another type, and a block followed by more text.
TextInputs ==
    {pem_EncodeToMemory(DefaultPublicTag, Ones(PubKeySize)),
     pem_EncodeToMemory(ToLower(DefaultPrivateTag), Ones(PrivKeySize)),
     pem_EncodeToMemory(X25519Name \o PublicSuffix, Ones(PubKeySize)),
     <<BeginLine(DefaultPublicTag), B64Line(<<"!">>),
       EndLine(DefaultPublicTag)>>,
     <<TextLine>> \o pem_EncodeToMemory(DefaultPrivateTag, Ones(PrivKeySize)),
     <<BeginLine(DefaultPublicTag), B64Line(B64Encode(Ones(PubKeySize))),
       EndLine(DefaultPrivateTag)>>,
     pem_EncodeToMemory(DefaultPublicTag, Ones(PubKeySize)) \o <<TextLine>>}

File(data, mode) == [exists |-> TRUE, data |-> data, mode |-> mode]

\* The file found at "key.pem" when the program starts: none; a world-readable
\* canonical public block; a public block tagged in lower case; a private
\* block tagged in mixed case; a private block of another algorithm; a
\* canonical private block around bytes of the public size; text with no
\* block.
InitFiles ==
    {NoFile,
     File(pem_EncodeToMemory(DefaultPublicTag, Ones(PubKeySize)), Mode0644),
     File(pem_EncodeToMemory(ToLower(DefaultPublicTag), Ones(PubKeySize)),
          Mode0600),
     File(pem_EncodeToMemory(KEM_String(Kyber768X25519) \o PrivateSuffix,
                             Ones(PrivKeySize)), Mode0644),
     File(pem_EncodeToMemory(X25519Name \o PrivateSuffix, Ones(PrivKeySize)),
          Mode0600),
     File(pem_EncodeToMemory(DefaultPrivateTag, Ones(PubKeySize)), Mode0600),
     File(<<TextLine>>, Mode0600)}

\* Any PublicKey another caller may hand to Equal.
OtherKeys ==
    {[KEM |-> Kyber768X25519, publicKey |-> k, hash |-> ZeroHash] :
        k \in PubKeys}

\* ------------------------------------------------------------------- Init

NoRet == [op |-> "init", err |-> "nil", out |-> <<>>, path |-> "",
          parsed |-> FALSE]

Init ==
    /\ pub = NoKey
    /\ priv = NoPriv
    /\ fs \in [Paths -> InitFiles]
    /\ \A f \in Paths : ~Reachable(f) => fs[f] = NoFile
    /\ ret = NoRet
    /\ paired = FALSE

Running == ret.op # "panic"

\* A call that returns: what it returned and what it left behind.
Return(op, err, out, path, parsed, pub2, priv2, fs2) ==
    /\ Running
    /\ ret' = [op |-> op, err |-> err, out |-> out, path |-> path,
               parsed |-> parsed]
    /\ pub' = pub2
    /\ priv' = priv2
    /\ fs' = fs2
    /\ paired' = (/\ paired
                  /\ publicKey_Bytes(pub2) = publicKey_Bytes(pub)
                  /\ privateKey_Bytes(priv2) = privateKey_Bytes(priv))

\* A call that panics: the process stops where it is.
Panic ==
    /\ Running
    /\ ret' = [NoRet EXCEPT !.op = "panic"]
    /\ UNCHANGED <<pub, priv, fs, paired>>

\* ---------------------------------------------------- the scheme's calls

Call_GenerateKeypair ==
    \E r \in EntropyInputs :
        LET g == scheme_GenerateKeypair(DefaultScheme, r)
        IN  IF g.panic THEN Panic
            ELSE /\ Running
                 /\ ret' = [op |-> "GenerateKeypair", err |-> "nil",
                            out |-> <<g.priv, g.pub>>, path |-> "",
                            parsed |-> FALSE]
                 /\ priv' = g.priv
                 /\ pub' = g.pub
                 /\ paired' = TRUE
                 /\ UNCHANGED fs

\* A constructor's key replaces the caller's on success; on an error the
\* caller is handed no key and keeps the one it had.
Call_PrivateKeyFromBytes(b) ==
        \E r \in {scheme_PrivateKeyFromBytes(DefaultScheme, b)} :
            Return("PrivateKeyFromBytes", r.err,
                   IF r.key = NoPriv THEN <<>> ELSE <<r.key>>, "", r.parsed,
                   pub, IF r.key = NoPriv THEN priv ELSE r.key, fs)

Call_PublicKeyFromBytes(b) ==
        \E r \in {scheme_PublicKeyFromBytes(DefaultScheme, b)} :
            Return("PublicKeyFromBytes", r.err,
                   IF r.key = NoKey THEN <<>> ELSE <<r.key>>, "", r.parsed,
                   IF r.key = NoKey THEN pub ELSE r.key, priv, fs)

Call_PrivateKeyFromPemFile ==
    \E f \in Paths :
        \E r \in {scheme_PrivateKeyFromPemFile(DefaultScheme, f, fs)} :
            Return("PrivateKeyFromPemFile", r.err,
                   IF r.key = NoPriv THEN <<>> ELSE <<r.key>>, f, r.parsed,
                   pub, IF r.key = NoPriv THEN priv ELSE r.key, fs)

Call_PrivateKeyToPemFile ==
    /\ priv # NoPriv
    /\ \E f \in Paths :
        \E r \in {scheme_PrivateKeyToPemFile(DefaultScheme, f, priv, fs)} :
            Return("PrivateKeyToPemFile", r.err, <<>>, f, FALSE,
                   pub, priv, r.fs)

Call_PublicKeyFromPemFile ==
    \E f \in Paths :
        \E r \in {scheme_PublicKeyFromPemFile(DefaultScheme, f, fs)} :
            Return("PublicKeyFromPemFile", r.err,
                   IF r.key = NoKey THEN <<>> ELSE <<r.key>>, f, r.parsed,
                   IF r.key = NoKey THEN pub ELSE r.key, priv, fs)

Call_PublicKeyToPemFile ==
    /\ pub # NoKey
    /\ \E f \in Paths :
        \E r \in {scheme_PublicKeyToPemFile(DefaultScheme, f, pub, fs)} :
            Return("PublicKeyToPemFile", r.err, <<>>, f, FALSE,
                   pub, priv, r.fs)

Call_UnmarshalTextPublicKey ==
    \E b \in Base64Inputs :
        \E r \in {scheme_UnmarshalTextPublicKey(DefaultScheme, b)} :
            Return("UnmarshalTextPublicKey", r.err,
                   IF r.key = NoKey THEN <<>> ELSE <<r.key>>, "", r.parsed,
                   IF r.key = NoKey THEN pub ELSE r.key, priv, fs)

Call_UnmarshalTextPrivateKey ==
    \E b \in Base64Inputs :
        \E r \in {scheme_UnmarshalTextPrivateKey(DefaultScheme, b)} :
            Return("UnmarshalTextPrivateKey", r.err,
                   IF r.key = NoPriv THEN <<>> ELSE <<r.key>>, "", r.parsed,
                   pub, IF r.key = NoPriv THEN priv ELSE r.key, fs)

Call_UnmarshalBinaryPublicKey ==
    \E b \in ByteInputs :
        \E r \in {scheme_UnmarshalBinaryPublicKey(DefaultScheme, b)} :
            Return("UnmarshalBinaryPublicKey", r.err,
                   IF r.key = NoKey THEN <<>> ELSE <<r.key>>, "", r.parsed,
                   IF r.key = NoKey THEN pub ELSE r.key, priv, fs)

\* ------------------------------------------------- the PublicKey's calls

Call_publicKey_KeyType ==
    /\ pub # NoKey
    /\ Return("publicKey.KeyType", "nil", publicKey_KeyType(pub), "", FALSE,
              pub, priv, fs)

Call_publicKey_FromPEMFile ==
    /\ pub # NoKey
    /\ \E f \in Paths :
        \E r \in {publicKey_FromPEMFile(pub, f, fs)} :
            Return("publicKey.FromPEMFile", r.err, <<>>, f, r.parsed,
                   r.p, priv, fs)

Call_publicKey_ToPEMFile ==
    /\ pub # NoKey
    /\ \E f \in Paths :
        \E r \in {publicKey_ToPEMFile(pub, f, fs)} :
            Return("publicKey.ToPEMFile", r.err, <<>>, f, FALSE,
                   pub, priv, r.fs)

Call_publicKey_Reset ==
    /\ pub # NoKey
    /\ Return("publicKey.Reset", "nil", <<>>, "", FALSE,
              publicKey_Reset(pub), priv, fs)

Call_publicKey_Equal ==
    /\ pub # NoKey
    /\ \E other \in OtherKeys :
        Return("publicKey.Equal", "nil", <<publicKey_Equal(pub, other)>>, "",
               FALSE, pub, priv, fs)

Call_publicKey_FromBytes ==
    /\ pub # NoKey
    /\ \E b \in ByteInputs :
        \E r \in {publicKey_FromBytes(pub, b)} :
            Return("publicKey.FromBytes", r.err, <<>>, "", r.parsed,
                   r.p, priv, fs)

Call_publicKey_Bytes ==
    /\ pub # NoKey
    /\ Return("publicKey.Bytes", "nil", publicKey_Bytes(pub), "", FALSE,
              pub, priv, fs)

Call_publicKey_MarshalBinary ==
    /\ pub # NoKey
    /\ Return("publicKey.MarshalBinary", "nil", publicKey_MarshalBinary(pub),
              "", FALSE, pub, priv, fs)

Call_publicKey_UnmarshalBinary ==
    /\ pub # NoKey
    /\ \E b \in ByteInputs :
        \E r \in {publicKey_UnmarshalBinary(pub, b)} :
            Return("publicKey.UnmarshalBinary", r.err, <<>>, "", r.parsed,
                   r.p, priv, fs)

Call_publicKey_MarshalText ==
    /\ pub # NoKey
    /\ LET r == publicKey_MarshalText(pub)
       IN  IF r.panic THEN Panic
           ELSE Return("publicKey.MarshalText", "nil", r.text, "", FALSE,
                       pub, priv, fs)

Call_publicKey_UnmarshalText ==
    /\ pub # NoKey
    /\ \E text \in TextInputs :
        \E r \in {publicKey_UnmarshalText(pub, text)} :
            Return("publicKey.UnmarshalText", r.err, <<>>, "", r.parsed,
                   r.p, priv, fs)

Call_publicKey_Sum256 ==
    /\ pub # NoKey
    /\ \E r \in {publicKey_Sum256(pub)} :
           Return("publicKey.Sum256", "nil", <<r.out>>, "", FALSE,
                  r.p, priv, fs)

\* ------------------------------------------------ the PrivateKey's calls

Call_privateKey_KeyType ==
    /\ priv # NoPriv
    /\ Return("privateKey.KeyType", "nil", privateKey_KeyType(priv), "",
              FALSE, pub, priv, fs)

Call_privateKey_FromPEMFile ==
    /\ priv # NoPriv
    /\ \E f \in Paths :
        \E r \in {privateKey_FromPEMFile(priv, f, fs)} :
            Return("privateKey.FromPEMFile", r.err, <<>>, f, r.parsed,
                   pub, r.p, fs)

Call_privateKey_ToPEMFile ==
    /\ priv # NoPriv
    /\ \E f \in Paths :
        \E r \in {privateKey_ToPEMFile(priv, f, fs)} :
            Return("privateKey.ToPEMFile", r.err, <<>>, f, FALSE,
                   pub, priv, r.fs)

Call_privateKey_Reset ==
    /\ priv # NoPriv
    /\ Return("privateKey.Reset", "nil", <<>>, "", FALSE,
              pub, privateKey_Reset(priv), fs)

\* The PublicKey returned becomes the caller's PublicKey object.
Call_privateKey_PublicKey ==
    /\ priv # NoPriv
    /\ LET k == privateKey_PublicKey(priv)
       IN  Return("privateKey.PublicKey", "nil", <<k>>, "", FALSE,
                  k, priv, fs)

Call_privateKey_FromBytes ==
    /\ priv # NoPriv
    /\ \E b \in ByteInputs :
        \E r \in {privateKey_FromBytes(priv, b)} :
            Return("privateKey.FromBytes", r.err, <<>>, "", r.parsed,
                   pub, r.p, fs)

Call_privateKey_Bytes ==
    /\ priv # NoPriv
    /\ Return("privateKey.Bytes", "nil", privateKey_Bytes(priv), "", FALSE,
              pub, priv, fs)

Call_privateKey_MarshalBinary ==
    /\ priv # NoPriv
    /\ Return("privateKey.MarshalBinary", "nil",
              privateKey_MarshalBinary(priv), "", FALSE, pub, priv, fs)

Call_privateKey_UnmarshalBinary ==
    /\ priv # NoPriv
    /\ \E b \in ByteInputs :
        \E r \in {privateKey_UnmarshalBinary(priv, b)} :
            Return("privateKey.UnmarshalBinary", r.err, <<>>, "", r.parsed,
                   pub, r.p, fs)

Call_privateKey_MarshalText ==
    /\ priv # NoPriv
    /\ LET r == privateKey_MarshalText(priv)
       IN  IF r.panic THEN Panic
           ELSE Return("privateKey.MarshalText", "nil", r.text, "", FALSE,
                       pub, priv, fs)

Call_privateKey_UnmarshalText ==
    /\ priv # NoPriv
    /\ \E text \in TextInputs :
        \E r \in {privateKey_UnmarshalText(priv, text)} :
            Return("privateKey.UnmarshalText", r.err, <<>>, "", r.parsed,
                   pub, r.p, fs)

\* ------------------------------------------------------------------- Next

Next ==
    \/ Call_GenerateKeypair
    \/ \E b \in ByteInputs : Call_PrivateKeyFromBytes(b)
    \/ \E b \in ByteInputs : Call_PublicKeyFromBytes(b)
    \/ Call_PrivateKeyFromPemFile
    \/ Call_PrivateKeyToPemFile
    \/ Call_PublicKeyFromPemFile
    \/ Call_PublicKeyToPemFile
    \/ Call_UnmarshalTextPublicKey
    \/ Call_UnmarshalTextPrivateKey
    \/ Call_UnmarshalBinaryPublicKey
    \/ Call_publicKey_KeyType
    \/ Call_publicKey_FromPEMFile
    \/ Call_publicKey_ToPEMFile
    \/ Call_publicKey_Reset
    \/ Call_publicKey_Equal
    \/ Call_publicKey_FromBytes
    \/ Call_publicKey_Bytes
    \/ Call_publicKey_MarshalBinary
    \/ Call_publicKey_UnmarshalBinary
    \/ Call_publicKey_MarshalText
    \/ Call_publicKey_UnmarshalText
    \/ Call_publicKey_Sum256
    \/ Call_privateKey_KeyType
    \/ Call_privateKey_FromPEMFile
    \/ Call_privateKey_ToPEMFile
    \/ Call_privateKey_Reset
    \/ Call_privateKey_PublicKey
    \/ Call_privateKey_FromBytes
    \/ Call_privateKey_Bytes
    \/ Call_privateKey_MarshalBinary
    \/ Call_privateKey_UnmarshalBinary
    \/ Call_privateKey_MarshalText
    \/ Call_privateKey_UnmarshalText

Spec == Init /\ [][Next]_vars

\* ----------------------------------------------------------------- claims

PublicMethods ==
    {"publicKey.KeyType", "publicKey.FromPEMFile", "publicKey.ToPEMFile",
     "publicKey.Reset", "publicKey.Equal", "publicKey.FromBytes",
     "publicKey.Bytes", "publicKey.MarshalBinary",
     "publicKey.UnmarshalBinary", "publicKey.MarshalText",
     "publicKey.UnmarshalText", "publicKey.Sum256"}

PrivateMethods ==
    {"privateKey.KeyType", "privateKey.FromPEMFile", "privateKey.ToPEMFile",
     "privateKey.Reset", "privateKey.PublicKey", "privateKey.FromBytes",
     "privateKey.Bytes", "privateKey.MarshalBinary",
     "privateKey.UnmarshalBinary", "privateKey.MarshalText",
     "privateKey.UnmarshalText"}

PublicLoads ==
    {"publicKey.FromBytes", "publicKey.UnmarshalBinary",
     "publicKey.UnmarshalText", "publicKey.FromPEMFile"}

PrivateLoads ==
    {"privateKey.FromBytes", "privateKey.UnmarshalBinary",
     "privateKey.UnmarshalText", "privateKey.FromPEMFile"}

\* The writers and loaders of kem.go itself (the scheme's *ToPemFile hand the
\* key to cpem.ToFile).
PublicPemWriters == {"publicKey.ToPEMFile"}

PrivatePemWriters == {"privateKey.ToPEMFile"}

PublicPemLoaders == {"publicKey.FromPEMFile", "PublicKeyFromPemFile"}

PrivatePemLoaders == {"privateKey.FromPEMFile", "PrivateKeyFromPemFile"}

SchemeConstructors ==
    {"PrivateKeyFromBytes", "PublicKeyFromBytes", "PrivateKeyFromPemFile",
     "PublicKeyFromPemFile", "UnmarshalBinaryPublicKey"}

\* C1: once Reset() has been called on a key, a later ToPEMFile
\* on it fails with the scrubbed-key error and writes no file.  Stated for
\* the ToPEMFile call that follows the Reset() directly.
C1_ToPemFileAfterResetFails ==
    [][/\ (ret.op = "publicKey.Reset" /\ ret'.op \in PublicPemWriters)
            => (ret'.err = "ErrScrubbed" /\ fs' = fs)
       /\ (ret.op = "privateKey.Reset" /\ ret'.op \in PrivatePemWriters)
            => (ret'.err = "ErrScrubbed" /\ fs' = fs)]_vars

\* C2: after Reset() the bytes the key held are not recoverable from the
\* object: Bytes() and MarshalBinary() no longer return them.
C2_ResetScrubsBytes ==
    [][/\ ret'.op = "publicKey.Reset"
            => /\ publicKey_Bytes(pub') # publicKey_Bytes(pub)
               /\ publicKey_MarshalBinary(pub') # publicKey_Bytes(pub)
       /\ ret'.op = "privateKey.Reset"
            => /\ privateKey_Bytes(priv') # privateKey_Bytes(priv)
               /\ privateKey_MarshalBinary(priv') # privateKey_Bytes(priv)]_vars

\* The tag a loader expects, and the block of the file it was given.
ExpectedTag(op) ==
    IF op \in PublicPemLoaders
    THEN (IF op = "publicKey.FromPEMFile" THEN publicKey_KeyType(pub)
          ELSE PublicKeyType(DefaultScheme.KEM))
    ELSE (IF op = "privateKey.FromPEMFile" THEN privateKey_KeyType(priv)
          ELSE PrivateKeyType(DefaultScheme.KEM))

BlockAt(f) == pem_Decode(os_ReadFile(fs, f).buf)

\* C3: every PEM loader given a block whose tag, upper-cased, is not the
\* tag it expects fails with the type-mismatch error, hands nothing to the
\* KEM parser and (a constructor) returns no key; a tag that differs from
\* the expected one in letter case only passes the check and the block's
\* bytes reach the KEM parser.
C3_TypeTagEnforced ==
    (ret.op \in PublicPemLoaders \cup PrivatePemLoaders /\ BlockAt(ret.path).ok)
        => /\ ToUpper(BlockAt(ret.path).Type) # ExpectedTag(ret.op)
                => /\ ret.err = "ErrType"
                   /\ ~ret.parsed
                   /\ ret.out = <<>>
           /\ ToLower(BlockAt(ret.path).Type) = ToLower(ExpectedTag(ret.op))
                => /\ ret.err \in {"nil", "ErrParse"}
                   /\ ret.parsed

\* A private-key loader was given a PUBLIC KEY block and refused it.
C3_Witness ==
    /\ ret.op \in PrivatePemLoaders
    /\ BlockAt(ret.path).ok
    /\ BlockAt(ret.path).Type = PublicKeyType(DefaultScheme.KEM)
    /\ ret.err = "ErrType"

C5_PemRoundTrip ==
    [][/\ (/\ ret.op \in PublicPemWriters /\ ret.err = "nil"
           /\ ret'.op \in PublicPemLoaders /\ ret'.path = ret.path)
            => /\ ret'.err = "nil"
               /\ publicKey_Bytes(pub') = publicKey_Bytes(pub)
       /\ (/\ ret.op \in PrivatePemWriters /\ ret.err = "nil"
           /\ ret'.op \in PrivatePemLoaders /\ ret'.path = ret.path)
            => /\ ret'.err = "nil"
               /\ privateKey_Bytes(priv') = privateKey_Bytes(priv)]_vars

\* A private key was loaded from a file holding its own canonical block,
\* which only a ToPEMFile of that key puts there.
C5_Witness ==
    /\ ret.op \in PrivatePemLoaders
    /\ ret.err = "nil"
    /\ fs[ret.path].exists
    /\ fs[ret.path].data =
          pem_EncodeToMemory(privateKey_KeyType(priv), privateKey_Bytes(priv))
    /\ fs[ret.path].mode = Mode0600

\* C6: Sum256() returns the hash of the key's current raw bytes, whatever
\* hash the object had cached, and leaves that hash in the cache.
C6_Sum256OfCurrentBytes ==
    ret.op = "publicKey.Sum256"
        => /\ ret.out = <<blake2b_Sum256(publicKey_Bytes(pub))>>
           /\ pub.hash = blake2b_Sum256(publicKey_Bytes(pub))

\* Sum256 ran on a key that is no longer the generated one.
C6_Witness ==
    /\ ret.op = "publicKey.Sum256"
    /\ priv # NoPriv
    /\ publicKey_Bytes(pub) # Keypair_Public(priv.privateKey)

\* The PublicKey of the private key rebuilt from p's serialized bytes.
RebuiltPublicKey(p) ==
    privateKey_PublicKey(
        scheme_PrivateKeyFromBytes(DefaultScheme, privateKey_Bytes(p)).key)

C8_ToPemFile ==
    [][/\ ret'.op \in PublicPemWriters
            => IF CtIsZero(publicKey_Bytes(pub))
               THEN ret'.err = "ErrScrubbed" /\ fs' = fs
               ELSE /\ ret'.err # "ErrScrubbed"
                    /\ ret'.err = "nil"
                        => fs' = [fs EXCEPT ![ret'.path] =
                                File(pem_EncodeToMemory(publicKey_KeyType(pub),
                                                        publicKey_Bytes(pub)),
                                     Mode0600)]
       /\ ret'.op \in PrivatePemWriters
            => IF CtIsZero(privateKey_Bytes(priv))
               THEN ret'.err = "ErrScrubbed" /\ fs' = fs
               ELSE /\ ret'.err # "ErrScrubbed"
                    /\ ret'.err = "nil"
                        => fs' = [fs EXCEPT ![ret'.path] =
                                File(pem_EncodeToMemory(privateKey_KeyType(priv),
                                                        privateKey_Bytes(priv)),
                                     Mode0600)]]_vars

\* C9 as stated: no call on a key object other than Reset() changes the
\* value of its Bytes().
C9_OnlyResetChangesBytes ==
    [][/\ ret'.op \in PublicMethods \ {"publicKey.Reset"}
            => publicKey_Bytes(pub') = publicKey_Bytes(pub)
       /\ ret'.op \in PrivateMethods \ {"privateKey.Reset"}
            => privateKey_Bytes(priv') = privateKey_Bytes(priv)]_vars

\* C9 amended: a call on a key object other than Reset() changes its Bytes()
\* only when it is a FromBytes, UnmarshalBinary, UnmarshalText or FromPEMFile
\* that returns no error, and then Bytes() are bytes the KEM parser accepted;
\* a failed load and every Sum256, Equal, KeyType, marshal and ToPEMFile
\* leave Bytes() as they were.
C9_OnlyLoadsChangeBytes ==
    [][/\ (ret'.op \in PublicMethods \ {"publicKey.Reset"}
            /\ publicKey_Bytes(pub') # publicKey_Bytes(pub))
            => /\ ret'.op \in PublicLoads
               /\ ret'.err = "nil"
               /\ ret'.parsed
               /\ KEM_ParsePublicKey(pub.KEM, publicKey_Bytes(pub')).err = "nil"
       /\ (ret'.op \in PrivateMethods \ {"privateKey.Reset"}
            /\ privateKey_Bytes(priv') # privateKey_Bytes(priv))
            => /\ ret'.op \in PrivateLoads
               /\ ret'.err = "nil"
               /\ ret'.parsed
               /\ KEM_ParsePrivateKey(priv.KEM, privateKey_Bytes(priv')).err
                    = "nil"]_vars

\* FromBytes replaced the bytes of a key whose hash had been computed: the
\* cached hash is that of other bytes.
C9_Witness ==
    /\ ret.op = "publicKey.FromBytes"
    /\ ret.err = "nil"
    /\ pub.hash # ZeroHash
    /\ pub.hash # blake2b_Sum256(publicKey_Bytes(pub))

\* C10: a FromBytes, UnmarshalBinary or FromPEMFile that returns an error
\* leaves the key object (raw key, algorithm identity, Bytes()) as it was,
\* and a scheme constructor that returns an error returns no key.
C10_FailedLoadLeavesKey ==
    [][/\ (/\ ret'.op \in PublicLoads \ {"publicKey.UnmarshalText"}
           /\ ret'.err # "nil")
            => /\ pub'.publicKey = pub.publicKey
               /\ pub'.KEM = pub.KEM
               /\ publicKey_Bytes(pub') = publicKey_Bytes(pub)
       /\ (/\ ret'.op \in PrivateLoads \ {"privateKey.UnmarshalText"}
           /\ ret'.err # "nil")
            => /\ priv'.privateKey = priv.privateKey
               /\ priv'.KEM = priv.KEM
               /\ privateKey_Bytes(priv') = privateKey_Bytes(priv)
       /\ (ret'.op \in SchemeConstructors /\ ret'.err # "nil")
            => ret'.out = <<>>]_vars

\* A FromPEMFile on an existing private key failed on the type tag.
C10_Witness ==
    /\ ret.op = "privateKey.FromPEMFile"
    /\ ret.err = "ErrType"
    /\ priv # NoPriv
    /\ ~CtIsZero(privateKey_Bytes(priv))

====
